---- MODULE Spec2Model ----
(***************************************************************************)
(* State-machine model of src/simpy/Stats.py: the statistics layer on top  *)
(* of a discrete-event simulation (ResourceStatsMixin, Entity, Source).    *)
(*                                                                         *)
(* Time is counted in units of 1/Scale of a tick, so that timestamps that  *)
(* fall strictly between two integer ticks exist in the model.  A Python   *)
(* time value t is the model value t * Scale; int(env.now) is              *)
(* now \div Scale and the integer tick i is the model time i * Scale.      *)
(*                                                                         *)
(* An optional value (None / attribute not yet set) is the empty sequence, *)
(* a present value v is <<v>>.                                             *)
(***************************************************************************)
EXTENDS Integers, Sequences, FiniteSets, TLC

\* ---------------------------------------------------------------- bounds
Scale == 2
Capacity == 1
MaxPending == 1
\* the entity specification (Spec): one entity visiting two resources
MaxNow == 2
MaxEntities == 1
MaxLog == 3
\* the source specification (SpecSource): several entities, one resource
MaxNowS == 2
MaxDelay == 1
NumberS == 2
MaxLogS == 1
\* the resource specification (SpecQueue): one resource called directly
MaxNowQ == 6
MaxLogQ == 4

\* Source(number=float("Inf")): a count no list length ever equals.
Inf == -1

Names == {"A", "B"}
NamesS == {"A"}
NamesQ == {"A"}
Delays == 0 .. MaxDelay

None == << >>
Some(v) == << v >>
Val(o) == o[1]

VARIABLES
    now,        \* env.now, in units of 1/Scale
    entities,   \* Source.entities: sequence of Entity objects
    count,      \* Source.count
    srcPc,      \* position of the Source.next_entity generator: "run" | "done"
    res,        \* per resource name: queue_size (event log), queue, users, pending
    ret         \* outcome of the call made by the last step

vars == << now, entities, count, srcPc, res, ret >>

NoRet == [op |-> "none", ent |-> 0, raised |-> FALSE, val |-> 0]
Returned(o, e, v) == [op |-> o, ent |-> e, raised |-> FALSE, val |-> v]
Raised(o, e) == [op |-> o, ent |-> e, raised |-> TRUE, val |-> 0]

\* ------------------------------------------------- ResourceStatsMixin

\* d[t] of queue_size_over_time: the (size, status) pairs logged at time t.
EventsAt(log, t) == SelectSeq(log, LAMBDA ev : ev[1] = t)

\* Mutant of BiggestSize: the event recorded last wins.
BiggestSize_last(evs, biggest) ==
    IF evs = << >> THEN biggest ELSE evs[Len(evs)][2]

\* The inner loop of queue_size_over_time: the biggest size, starting at 0.
RECURSIVE BiggestSize(_, _)
BiggestSize(evs, biggest) ==
    IF evs = << >> THEN biggest
    ELSE BiggestSize(Tail(evs),
                     IF Head(evs)[2] > biggest THEN Head(evs)[2] ELSE biggest)

\* Mutant of SeriesLoop: a tick without an event falls back to 0 (no hold).
RECURSIVE SeriesLoop_nohold(_, _, _, _, _)
SeriesLoop_nohold(log, i, n, current_queue_size, queue_over_time) ==
    IF i >= n THEN queue_over_time
    ELSE LET evs == EventsAt(log, i * Scale)
             cur == IF evs # << >> THEN BiggestSize(evs, 0) ELSE 0
         IN SeriesLoop_nohold(log, i + 1, n, cur, Append(queue_over_time, cur))

\* The outer loop of queue_size_over_time, for i in range(n).
RECURSIVE SeriesLoop(_, _, _, _, _)
SeriesLoop(log, i, n, current_queue_size, queue_over_time) ==
    IF i >= n THEN queue_over_time
    ELSE LET evs == EventsAt(log, i * Scale)
             cur == IF evs # << >> THEN BiggestSize(evs, 0)
                    ELSE current_queue_size
         IN SeriesLoop(log, i + 1, n, cur, Append(queue_over_time, cur))

\* Mutant of IntNow: the current tick is included (range(int(now) + 1)).
IntNow_inclusive(t) == (t \div Scale) + 1

IntNow(t) == t \div Scale

queue_size_over_time(log, t) == SeriesLoop(log, 0, IntNow(t), 0, << >>)

\* simpy BaseResource._trigger_put with Resource._do_put: only the head of the
\* queue is tried; it is granted (moved to users) when a slot is free.
trigger_put(r) ==
    IF r.queue # << >> /\ Len(r.users) < Capacity
    THEN [r EXCEPT !.users = Append(r.users, Head(r.queue)),
                   !.queue = Tail(r.queue)]
    ELSE r

\* Mutant of request: the length is observed before the put queue is triggered,
\* the requester always counted.
request_counted(r, e, t) ==
    LET r1 == trigger_put([r EXCEPT !.queue = Append(r.queue, e)])
    IN [r1 EXCEPT !.queue_size =
           Append(r1.queue_size, << t, Len(r.queue) + 1, "request" >>)]

\* ResourceStatsMixin.request: super().request() queues the request and
\* triggers the put queue, then the event is logged.
request(r, e, t) ==
    LET r1 == trigger_put([r EXCEPT !.queue = Append(r.queue, e)])
    IN [r1 EXCEPT !.queue_size = Append(r1.queue_size, << t, Len(r1.queue), "request" >>)]

\* Mutant of add_queue_check: the tuple is written over the last one.
add_queue_check_overwrite(r, t) ==
    IF r.queue_size = << >>
    THEN [r EXCEPT !.queue_size = << << t, Len(r.queue), "start" >> >>]
    ELSE [r EXCEPT !.queue_size[Len(r.queue_size)] = << t, Len(r.queue), "start" >>]

add_queue_check(r, t) ==
    [r EXCEPT !.queue_size = Append(r.queue_size, << t, Len(r.queue), "start" >>)]

RECURSIVE RemoveFirst(_, _)
RemoveFirst(s, x) ==
    IF s = << >> THEN << >>
    ELSE IF Head(s) = x THEN Tail(s)
    ELSE << Head(s) >> \o RemoveFirst(Tail(s), x)

\* ResourceStatsMixin.release: simpy removes the request from users (if it is
\* there) and schedules the Release event, whose callback triggers the queue.
release(r, q) ==
    [r EXCEPT !.users = RemoveFirst(r.users, q), !.pending = r.pending + 1]

\* ------------------------------------------------------------- Entity

_empty_resource_tracking_dict ==
    [arrival_time |-> 0, start_service_time |-> 0, finish_service_time |-> 0]

NewEntity(creation, cnt) ==
    [name |-> cnt, creation_time |-> creation, disposal_time |-> None,
     resources_requested |-> << >>,
     total_time |-> None, waiting_time |-> None, processing_time |-> None]

\* resources_requested is an OrderedDict: a sequence of [key, value] pairs.
KeyIndex(rr, name) ==
    IF \E k \in 1 .. Len(rr) : rr[k].key = name
    THEN CHOOSE k \in 1 .. Len(rr) : rr[k].key = name
    ELSE 0

HasKey(rr, name) == KeyIndex(rr, name) # 0

Lookup(rr, name) == rr[KeyIndex(rr, name)].value

\* rr[name] = value: an existing key keeps its position.
SetItem(rr, name, value) ==
    IF HasKey(rr, name)
    THEN [rr EXCEPT ![KeyIndex(rr, name)].value = value]
    ELSE Append(rr, [key |-> name, value |-> value])

is_disposed(e) == e.disposal_time # None

\* Mutant of _add_resource_to_visited: an existing record is kept (setdefault).
_add_resource_to_visited_keep(e, name) ==
    IF HasKey(e.resources_requested, name) THEN e
    ELSE [e EXCEPT !.resources_requested =
            Append(e.resources_requested,
                   [key |-> name, value |-> _empty_resource_tracking_dict])]

_add_resource_to_visited(e, name) ==
    [e EXCEPT !.resources_requested =
        SetItem(e.resources_requested, name, _empty_resource_tracking_dict)]

_calculate_waiting_time_for_resource(e, name) ==
    LET resource_stats == Lookup(e.resources_requested, name)
    IN resource_stats.start_service_time - resource_stats.arrival_time

_calculate_processing_time_for_resource(e, name) ==
    LET resource_stats == Lookup(e.resources_requested, name)
    IN resource_stats.finish_service_time - resource_stats.start_service_time

\* The loop of _calculate_statistics over resources_requested.items().
\* Mutant of SumWaiting: only the last record is counted.
SumWaiting_last(e, k) ==
    IF k = 0 THEN 0
    ELSE _calculate_waiting_time_for_resource(e, e.resources_requested[k].key)

RECURSIVE SumWaiting(_, _)
SumWaiting(e, k) ==
    IF k = 0 THEN 0
    ELSE SumWaiting(e, k - 1)
         + _calculate_waiting_time_for_resource(e, e.resources_requested[k].key)

RECURSIVE SumProcessing(_, _)
SumProcessing(e, k) ==
    IF k = 0 THEN 0
    ELSE SumProcessing(e, k - 1)
         + _calculate_processing_time_for_resource(e, e.resources_requested[k].key)

\* Mutant of _calculate_statistics: the creation time is not subtracted.
_calculate_statistics_no_creation(e) ==
    [e EXCEPT !.total_time = Some(Val(e.disposal_time)),
              !.waiting_time = Some(SumWaiting(e, Len(e.resources_requested))),
              !.processing_time = Some(SumProcessing(e, Len(e.resources_requested)))]

\* Mutant of _calculate_statistics: values computed once are kept.
_calculate_statistics_cached(e) ==
    IF e.total_time # None THEN e
    ELSE [e EXCEPT !.total_time = Some(Val(e.disposal_time) - e.creation_time),
                   !.waiting_time = Some(SumWaiting(e, Len(e.resources_requested))),
                   !.processing_time = Some(SumProcessing(e, Len(e.resources_requested)))]

\* Called on disposed entities only (the accessors test is_disposed first).
_calculate_statistics(e) ==
    [e EXCEPT !.total_time = Some(Val(e.disposal_time) - e.creation_time),
              !.waiting_time = Some(SumWaiting(e, Len(e.resources_requested))),
              !.processing_time = Some(SumProcessing(e, Len(e.resources_requested)))]

\* An accessor yields [raised, val, entity]: the outcome and the entity after it.
get_total_time(e) ==
    IF is_disposed(e)
    THEN LET e1 == _calculate_statistics(e)
         IN [raised |-> FALSE, val |-> Val(e1.total_time), entity |-> e1]
    ELSE [raised |-> TRUE, val |-> 0, entity |-> e]

\* Mutant of get_total_waiting_time: zero for an entity that is not disposed.
get_total_waiting_time_silent(e) ==
    IF is_disposed(e)
    THEN LET e1 == _calculate_statistics(e)
         IN [raised |-> FALSE, val |-> Val(e1.waiting_time), entity |-> e1]
    ELSE [raised |-> FALSE, val |-> 0, entity |-> e]

get_total_waiting_time(e) ==
    IF is_disposed(e)
    THEN LET e1 == _calculate_statistics(e)
         IN [raised |-> FALSE, val |-> Val(e1.waiting_time), entity |-> e1]
    ELSE [raised |-> TRUE, val |-> 0, entity |-> e]

get_total_processing_time(e) ==
    IF is_disposed(e)
    THEN LET e1 == _calculate_statistics(e)
         IN [raised |-> FALSE, val |-> Val(e1.processing_time), entity |-> e1]
    ELSE [raised |-> TRUE, val |-> 0, entity |-> e]

\* Mutant of get_waiting_time_for_resource: a missing record is created empty
\* (a defaultdict) and its zero duration returned.
get_waiting_time_for_resource_default(e, name) ==
    IF HasKey(e.resources_requested, name)
    THEN [raised |-> FALSE, val |-> _calculate_waiting_time_for_resource(e, name),
          entity |-> e]
    ELSE [raised |-> FALSE, val |-> 0, entity |-> _add_resource_to_visited(e, name)]

\* resources_requested[resource_name] raises KeyError for a name without a
\* record; an OrderedDict lookup inserts nothing.
get_waiting_time_for_resource(e, name) ==
    IF HasKey(e.resources_requested, name)
    THEN [raised |-> FALSE, val |-> _calculate_waiting_time_for_resource(e, name),
          entity |-> e]
    ELSE [raised |-> TRUE, val |-> 0, entity |-> e]

get_processing_time_for_resource(e, name) ==
    IF HasKey(e.resources_requested, name)
    THEN [raised |-> FALSE, val |-> _calculate_processing_time_for_resource(e, name),
          entity |-> e]
    ELSE [raised |-> TRUE, val |-> 0, entity |-> e]

request_resource(e, name, t) ==
    LET e1 == _add_resource_to_visited(e, name)
        rec == Lookup(e1.resources_requested, name)
    IN [e1 EXCEPT !.resources_requested =
           SetItem(e1.resources_requested, name, [rec EXCEPT !.arrival_time = t])]

start_service_at_resource(e, name, t) ==
    LET rec == Lookup(e.resources_requested, name)
    IN [e EXCEPT !.resources_requested =
           SetItem(e.resources_requested, name, [rec EXCEPT !.start_service_time = t])]

\* Mutant of release_resource: the stamp goes to arrival_time.
release_resource_arrival(e, name, t) ==
    LET rec == Lookup(e.resources_requested, name)
    IN [e EXCEPT !.resources_requested =
           SetItem(e.resources_requested, name, [rec EXCEPT !.arrival_time = t])]

release_resource(e, name, t) ==
    LET rec == Lookup(e.resources_requested, name)
    IN [e EXCEPT !.resources_requested =
           SetItem(e.resources_requested, name, [rec EXCEPT !.finish_service_time = t])]

\* Mutant of dispose: a second call takes the disposal back.
dispose_toggle(e, t) ==
    IF is_disposed(e) THEN [e EXCEPT !.disposal_time = None]
    ELSE [e EXCEPT !.disposal_time = Some(t)]

\* Mutant of dispose: a second call leaves the first stamp.
dispose_once(e, t) == IF is_disposed(e) THEN e ELSE [e EXCEPT !.disposal_time = Some(t)]

dispose(e, t) == [e EXCEPT !.disposal_time = Some(t)]

\* ------------------------------------------------------------- Source

\* The disposed entities, as their positions in Source.entities (the list
\* comprehension yields references to the Entity objects, in list order).
RECURSIVE DisposedFrom(_, _)
DisposedFrom(es, k) ==
    IF k > Len(es) THEN << >>
    ELSE (IF is_disposed(es[k]) THEN << k >> ELSE << >>) \o DisposedFrom(es, k + 1)

\* Mutant of _get_disposed_entities: the is_disposed() filter is missing.
_get_all_entities(es) == [k \in 1 .. Len(es) |-> k]

_get_disposed_entities(es) == DisposedFrom(es, 1)

CallAccessor(op, e) ==
    CASE op = "get_total_time" -> get_total_time(e)
      [] op = "get_total_waiting_time" -> get_total_waiting_time(e)
      [] op = "get_total_processing_time" -> get_total_processing_time(e)

\* [entity.<op>() for entity in idxs]: the calls are made in order, each on the
\* entity as the earlier calls left it; the first one to raise ends the list.
RECURSIVE MapAccessor(_, _, _)
MapAccessor(op, es, idxs) ==
    IF idxs = << >> THEN [raised |-> FALSE, val |-> << >>, entities |-> es]
    ELSE LET out == CallAccessor(op, es[Head(idxs)])
             es1 == [es EXCEPT ![Head(idxs)] = out.entity]
         IN IF out.raised
            THEN [raised |-> TRUE, val |-> << >>, entities |-> es1]
            ELSE LET rest == MapAccessor(op, es1, Tail(idxs))
                 IN [raised |-> rest.raised,
                     val |-> IF rest.raised THEN << >> ELSE << out.val >> \o rest.val,
                     entities |-> rest.entities]

get_total_times(es) == MapAccessor("get_total_time", es, _get_disposed_entities(es))

get_waiting_times(es) ==
    MapAccessor("get_total_waiting_time", es, _get_disposed_entities(es))

get_processing_times(es) ==
    MapAccessor("get_total_processing_time", es, _get_disposed_entities(es))

\* ---------------------------------------------------------------- Init

Init ==
    /\ now = 0
    /\ entities = << >>
    /\ count = 0
    /\ srcPc = "run"
    /\ res = [n \in Names |->
                [queue_size |-> << >>, queue |-> << >>, users |-> << >>, pending |-> 0]]
    /\ ret = NoRet

\* ------------------------------------------------------------- actions

\* Number of events logged so far by the resources of `names`.
RECURSIVE TotalLog(_)
TotalLog(names) ==
    IF names = {} THEN 0
    ELSE LET n == CHOOSE x \in names : TRUE
         IN Len(res[n].queue_size) + TotalLog(names \ {n})

\* The simulation clock advances once the events of the current instant
\* (the Release callbacks) have been processed.
Tick(maxNow) ==
    /\ \A n \in Names : res[n].pending = 0
    /\ \E d \in 1 .. Scale :
         /\ now + d <= maxNow
         /\ now' = now + d
    /\ ret' = NoRet
    /\ UNCHANGED << entities, count, srcPc, res >>

\* The callback of a processed Release event.
TriggerPut(n) ==
    /\ res[n].pending > 0
    /\ res' = [res EXCEPT ![n] = [trigger_put(res[n]) EXCEPT !.pending = res[n].pending - 1]]
    /\ ret' = NoRet
    /\ UNCHANGED << now, entities, count, srcPc >>

\* Mutant of NextEntity: the maximum is tested with > instead of ==.
NextEntity_overrun(time, number) ==
    /\ srcPc = "run"
    /\ count' = count + 1
    /\ IF Len(entities) > number
       THEN /\ srcPc' = "done"
            /\ UNCHANGED entities
       ELSE /\ entities' = Append(entities, NewEntity(now + time, count + 1))
            /\ UNCHANGED srcPc
    /\ ret' = NoRet
    /\ UNCHANGED << now, res >>

\* One advance of the Source.next_entity generator of a Source built with
\* number = `number`, the interarrival schedule yielding `time`.
NextEntity(time, number) ==
    /\ srcPc = "run"
    /\ count' = count + 1
    /\ IF Len(entities) = number
       THEN /\ srcPc' = "done"
            /\ UNCHANGED entities
       ELSE /\ entities' = Append(entities, NewEntity(now + time, count + 1))
            /\ UNCHANGED srcPc
    /\ ret' = NoRet
    /\ UNCHANGED << now, res >>

RequestResource(i, n) ==
    /\ entities' = [entities EXCEPT ![i] = request_resource(entities[i], n, now)]
    /\ res' = [res EXCEPT ![n] = request(res[n], i, now)]
    /\ ret' = NoRet
    /\ UNCHANGED << now, count, srcPc >>

\* Mutant of StartService: a missing record is created on the fly (setdefault)
\* and the call goes through.
StartService_create(i, n) ==
    /\ entities' = [entities EXCEPT ![i] =
           start_service_at_resource(
               IF HasKey(entities[i].resources_requested, n) THEN entities[i]
               ELSE _add_resource_to_visited(entities[i], n), n, now)]
    /\ res' = [res EXCEPT ![n] = add_queue_check(res[n], now)]
    /\ ret' = NoRet
    /\ UNCHANGED << now, count, srcPc >>

StartService(i, n) ==
    IF HasKey(entities[i].resources_requested, n)
    THEN /\ entities' = [entities EXCEPT ![i] = start_service_at_resource(entities[i], n, now)]
         /\ res' = [res EXCEPT ![n] = add_queue_check(res[n], now)]
         /\ ret' = NoRet
         /\ UNCHANGED << now, count, srcPc >>
    ELSE /\ ret' = Raised("start_service_at_resource", i)
         /\ UNCHANGED << now, entities, count, srcPc, res >>

ReleaseResource(i, n, q) ==
    IF HasKey(entities[i].resources_requested, n)
    THEN /\ res[n].pending < MaxPending
         /\ entities' = [entities EXCEPT ![i] = release_resource(entities[i], n, now)]
         /\ res' = [res EXCEPT ![n] = release(res[n], q)]
         /\ ret' = NoRet
         /\ UNCHANGED << now, count, srcPc >>
    ELSE /\ ret' = Raised("release_resource", i)
         /\ UNCHANGED << now, entities, count, srcPc, res >>

Dispose(i) ==
    /\ entities' = [entities EXCEPT ![i] = dispose(entities[i], now)]
    /\ ret' = Returned("dispose", i, now)
    /\ UNCHANGED << now, count, srcPc, res >>

Accessor(op, i, out) ==
    /\ entities' = [entities EXCEPT ![i] = out.entity]
    /\ ret' = IF out.raised THEN Raised(op, i) ELSE Returned(op, i, out.val)
    /\ UNCHANGED << now, count, srcPc, res >>

GetTotalTime(i) == Accessor("get_total_time", i, get_total_time(entities[i]))

GetTotalWaitingTime(i) ==
    Accessor("get_total_waiting_time", i, get_total_waiting_time(entities[i]))

GetTotalProcessingTime(i) ==
    Accessor("get_total_processing_time", i, get_total_processing_time(entities[i]))

GetWaitingTimeForResource(i, n) ==
    Accessor("get_waiting_time_for_resource", i,
             get_waiting_time_for_resource(entities[i], n))

GetProcessingTimeForResource(i, n) ==
    Accessor("get_processing_time_for_resource", i,
             get_processing_time_for_resource(entities[i], n))

SourceAccessor(op, out) ==
    /\ entities' = out.entities
    /\ ret' = IF out.raised THEN Raised(op, 0) ELSE Returned(op, 0, out.val)
    /\ UNCHANGED << now, count, srcPc, res >>

GetTotalTimes == SourceAccessor("get_total_times", get_total_times(entities))

GetWaitingTimes == SourceAccessor("get_waiting_times", get_waiting_times(entities))

GetProcessingTimes == SourceAccessor("get_processing_times", get_processing_times(entities))

\* Resource methods called directly by a process that is no Entity (token 0).
Request(n) ==
    /\ res' = [res EXCEPT ![n] = request(res[n], 0, now)]
    /\ ret' = NoRet
    /\ UNCHANGED << now, entities, count, srcPc >>

AddQueueCheck(n) ==
    /\ res' = [res EXCEPT ![n] = add_queue_check(res[n], now)]
    /\ ret' = NoRet
    /\ UNCHANGED << now, entities, count, srcPc >>

Release(n) ==
    /\ res[n].pending < MaxPending
    /\ res' = [res EXCEPT ![n] = release(res[n], 0)]
    /\ ret' = NoRet
    /\ UNCHANGED << now, entities, count, srcPc >>

\* ------------------------------------------------------ specifications

\* The entities of a Source with the default number (no maximum) and a schedule
\* of zero delays, visiting two resources; the calls come in any order.
Next ==
    \/ Tick(MaxNow)
    \/ \E n \in Names : TriggerPut(n)
    \/ Len(entities) < MaxEntities /\ NextEntity(0, Inf)
    \/ \E i \in 1 .. Len(entities), n \in Names :
         TotalLog(Names) < MaxLog /\ RequestResource(i, n)
    \/ \E i \in 1 .. Len(entities), n \in Names :
         TotalLog(Names) < MaxLog /\ StartService(i, n)
    \/ \E i \in 1 .. Len(entities), n \in Names, q \in 1 .. Len(entities) :
         ReleaseResource(i, n, q)
    \/ \E i \in 1 .. Len(entities) : Dispose(i)
    \/ \E i \in 1 .. Len(entities) : GetTotalTime(i)
    \/ \E i \in 1 .. Len(entities) : GetTotalWaitingTime(i)
    \/ \E i \in 1 .. Len(entities) : GetTotalProcessingTime(i)

Spec == Init /\ [][Next]_vars

\* One entity visiting one resource whose statistics are read through
\* get_total_waiting_time() only, so that the stored waiting_time is what the
\* previous call of that accessor returned.
NextCache ==
    \/ Tick(MaxNow)
    \/ \E n \in NamesS : TriggerPut(n)
    \/ Len(entities) < MaxEntities /\ NextEntity(0, Inf)
    \/ \E i \in 1 .. Len(entities), n \in NamesS :
         TotalLog(NamesS) < MaxLog /\ RequestResource(i, n)
    \/ \E i \in 1 .. Len(entities), n \in NamesS :
         TotalLog(NamesS) < MaxLog /\ StartService(i, n)
    \/ \E i \in 1 .. Len(entities), n \in NamesS, q \in 1 .. Len(entities) :
         ReleaseResource(i, n, q)
    \/ \E i \in 1 .. Len(entities) : Dispose(i)
    \/ \E i \in 1 .. Len(entities) : GetTotalWaitingTime(i)

SpecCache == Init /\ [][NextCache]_vars

\* A Source with number = NumberS whose entities share one resource, and its
\* aggregation.
NextSource ==
    \/ Tick(MaxNowS)
    \/ \E n \in NamesS : TriggerPut(n)
    \/ \E time \in Delays : NextEntity(time, NumberS)
    \/ \E i \in 1 .. Len(entities), n \in NamesS :
         TotalLog(NamesS) < MaxLogS /\ RequestResource(i, n)
    \/ \E i \in 1 .. Len(entities), n \in NamesS :
         TotalLog(NamesS) < MaxLogS /\ StartService(i, n)
    \/ \E i \in 1 .. Len(entities), n \in NamesS, q \in 1 .. Len(entities) :
         ReleaseResource(i, n, q)
    \/ \E i \in 1 .. Len(entities) : Dispose(i)
    \/ GetTotalTimes
    \/ GetWaitingTimes
    \/ GetProcessingTimes

SpecSource == Init /\ [][NextSource]_vars

\* One entity visiting two resources whose per-resource durations are read at
\* any moment of its visits.
NextVisit ==
    \/ Tick(MaxNow)
    \/ \E n \in Names : TriggerPut(n)
    \/ Len(entities) < MaxEntities /\ NextEntity(0, Inf)
    \/ \E i \in 1 .. Len(entities), n \in Names :
         TotalLog(Names) < MaxLog /\ RequestResource(i, n)
    \/ \E i \in 1 .. Len(entities), n \in Names :
         TotalLog(Names) < MaxLog /\ StartService(i, n)
    \/ \E i \in 1 .. Len(entities), n \in Names, q \in 1 .. Len(entities) :
         ReleaseResource(i, n, q)
    \/ \E i \in 1 .. Len(entities) : Dispose(i)
    \/ \E i \in 1 .. Len(entities), n \in Names : GetWaitingTimeForResource(i, n)
    \/ \E i \in 1 .. Len(entities), n \in Names : GetProcessingTimeForResource(i, n)

SpecVisit == Init /\ [][NextVisit]_vars

\* One resource whose request / add_queue_check / release are called directly.
NextQueue ==
    \/ Tick(MaxNowQ)
    \/ \E n \in NamesQ : TriggerPut(n)
    \/ \E n \in NamesQ : TotalLog(NamesQ) < MaxLogQ /\ Request(n)
    \/ \E n \in NamesQ : TotalLog(NamesQ) < MaxLogQ /\ AddQueueCheck(n)
    \/ \E n \in NamesQ : Release(n)

SpecQueue == Init /\ [][NextQueue]_vars

\* -------------------------------------------------------------- claims

EntityAccessors ==
    {"get_total_time", "get_total_waiting_time", "get_total_processing_time"}

RECURSIVE SeqSum(_)
SeqSum(s) == IF s = << >> THEN 0 ELSE Head(s) + SeqSum(Tail(s))

\* start_service_time - arrival_time of every record of e, in record order.
WaitingTerms(e) ==
    [k \in 1 .. Len(e.resources_requested) |->
        e.resources_requested[k].value.start_service_time
        - e.resources_requested[k].value.arrival_time]

\* finish_service_time - start_service_time of every record of e.
ProcessingTerms(e) ==
    [k \in 1 .. Len(e.resources_requested) |->
        e.resources_requested[k].value.finish_service_time
        - e.resources_requested[k].value.start_service_time]

\* C1: while an entity's disposal_time is None, each of get_total_time,
\* get_total_waiting_time and get_total_processing_time raises: it returns no
\* value and leaves the entity as it was, whatever request / start / release
\* calls came before; and no accessor call has returned a value for an entity
\* that is not disposed.
C1_NotDisposedRaises ==
    /\ \A i \in 1 .. Len(entities) :
         entities[i].disposal_time = None =>
           /\ get_total_time(entities[i]).raised
           /\ get_total_waiting_time(entities[i]).raised
           /\ get_total_processing_time(entities[i]).raised
           /\ get_total_time(entities[i]).entity = entities[i]
           /\ get_total_waiting_time(entities[i]).entity = entities[i]
           /\ get_total_processing_time(entities[i]).entity = entities[i]
    /\ (ret.op \in EntityAccessors /\ entities[ret.ent].disposal_time = None)
         => ret.raised

\* An accessor has just raised on an entity that is not disposed and whose
\* record carries the stamps of a request, a start and a release.
C1_Witness ==
    /\ ret.op = "get_total_waiting_time"
    /\ ret.raised
    /\ entities[ret.ent].disposal_time = None
    /\ \E k \in 1 .. Len(entities[ret.ent].resources_requested) :
         LET rec == entities[ret.ent].resources_requested[k].value
         IN rec.arrival_time > 0 /\ rec.start_service_time > rec.arrival_time
            /\ rec.finish_service_time > 0

\* C2: for every disposed entity get_total_time() returns, without raising,
\* exactly disposal_time - creation_time, with the creation_time stamped by
\* Source.next_entity and the disposal_time currently stored by dispose().
C2_TotalTime ==
    /\ \A i \in 1 .. Len(entities) :
         entities[i].disposal_time # None =>
           /\ ~get_total_time(entities[i]).raised
           /\ get_total_time(entities[i]).val
                = entities[i].disposal_time[1] - entities[i].creation_time
    /\ (ret.op = "get_total_time" /\ ~ret.raised) =>
         ret.val = entities[ret.ent].disposal_time[1] - entities[ret.ent].creation_time

\* get_total_time() has just returned 1 for an entity created at 1, disposed at 2.
C2_Witness ==
    /\ ret.op = "get_total_time"
    /\ ~ret.raised
    /\ ret.val = 1
    /\ entities[ret.ent].creation_time = 1
    /\ entities[ret.ent].disposal_time = Some(2)

\* C3: for every disposed entity get_total_waiting_time() is the sum over all
\* records of resources_requested of start_service_time - arrival_time, and
\* get_total_processing_time() the sum over the same records of
\* finish_service_time - start_service_time.
C3_WaitingProcessingSums ==
    /\ \A i \in 1 .. Len(entities) :
         entities[i].disposal_time # None =>
           /\ ~get_total_waiting_time(entities[i]).raised
           /\ ~get_total_processing_time(entities[i]).raised
           /\ get_total_waiting_time(entities[i]).val = SeqSum(WaitingTerms(entities[i]))
           /\ get_total_processing_time(entities[i]).val
                = SeqSum(ProcessingTerms(entities[i]))
    /\ (ret.op = "get_total_waiting_time" /\ ~ret.raised) =>
         ret.val = SeqSum(WaitingTerms(entities[ret.ent]))
    /\ (ret.op = "get_total_processing_time" /\ ~ret.raised) =>
         ret.val = SeqSum(ProcessingTerms(entities[ret.ent]))

\* The scenario of the claim at the model's clock range, with a second record:
\* created at 0, first resource requested at 0, started at 1, released at 2,
\* disposed at 2, so total 2, waiting 1, processing 1 for that visit; a second
\* resource adds its own term and get_total_processing_time() has just
\* returned the sum of both.
C3_Witness ==
    /\ ret.op = "get_total_processing_time"
    /\ ~ret.raised
    /\ LET e == entities[ret.ent]
       IN /\ e.creation_time = 0
          /\ e.disposal_time = Some(2)
          /\ Len(e.resources_requested) = 2
          /\ e.resources_requested[1].value
               = [arrival_time |-> 0, start_service_time |-> 1, finish_service_time |-> 2]
          /\ ProcessingTerms(e)[2] > 0
          /\ ret.val = 1 + ProcessingTerms(e)[2]
          /\ e.total_time = Some(2)
          /\ e.waiting_time = Some(1 + WaitingTerms(e)[2])

\* The sizes observed by the events of `log` stamped exactly at tick i.
SizesAtTick(log, i) == {log[k][2] : k \in {j \in 1 .. Len(log) : log[j][1] = i * Scale}}

MaxOf(S) == CHOOSE m \in S : \A x \in S : x <= m

\* The ticks 0 .. floor(now) - 1.
TicksBefore(t) == {i \in 0 .. t : (i + 1) * Scale <= t}

\* C4: in the series returned by queue_size_over_time(), the value at every
\* tick i < int(now) that has events stamped exactly i is the maximum queue
\* length observed by those events, whatever their order and kind.
C4_MaxAtTick ==
    \A n \in Names :
      LET log == res[n].queue_size
          series == queue_size_over_time(log, now)
      IN \A i \in TicksBefore(now) :
           SizesAtTick(log, i) # {} => series[i + 1] = MaxOf(SizesAtTick(log, i))

\* A tick before now holds a 'request' and a later-recorded 'start' event, the
\* earlier one observed the longer queue, and the series shows that longer one.
C4_Witness ==
    \E n \in Names :
      LET log == res[n].queue_size
          series == queue_size_over_time(log, now)
      IN \E i \in TicksBefore(now), k1, k2 \in 1 .. Len(log) :
           /\ k1 < k2
           /\ log[k1][1] = i * Scale /\ log[k2][1] = i * Scale
           /\ log[k1][3] = "request" /\ log[k2][3] = "start"
           /\ log[k1][2] > log[k2][2]
           /\ series[i + 1] = log[k1][2]

\* The events of `log` stamped at an integer tick.
AtTicks(log) == SelectSeq(log, LAMBDA ev : ev[1] % Scale = 0)

\* C5: at every tick i with no event stamped exactly i the series repeats the
\* value of tick i - 1, and is 0 at tick 0 and as long as no earlier tick had an
\* event; events stamped strictly between two ticks change no value of it.
C5_Hold ==
    \A n \in Names :
      LET log == res[n].queue_size
          series == queue_size_over_time(log, now)
      IN /\ \A i \in TicksBefore(now) :
              SizesAtTick(log, i) = {} =>
                series[i + 1] = IF i = 0 THEN 0 ELSE series[i]
         /\ \A i \in TicksBefore(now) :
              (\A j \in 0 .. i : SizesAtTick(log, j) = {}) => series[i + 1] = 0
         /\ series = queue_size_over_time(AtTicks(log), now)

\* A tick without events repeats a non-zero value of the tick before it, while
\* an event stamped between two ticks observed another queue length.
C5_Witness ==
    \E n \in Names :
      LET log == res[n].queue_size
          series == queue_size_over_time(log, now)
      IN \E i \in TicksBefore(now), k \in 1 .. Len(log) :
           /\ i > 0
           /\ SizesAtTick(log, i) = {}
           /\ series[i] > 0
           /\ series[i + 1] = series[i]
           /\ log[k][1] % Scale # 0
           /\ log[k][1] < (i + 1) * Scale
           /\ log[k][2] # series[i]

\* C6: queue_size_over_time() returns exactly floor(now) values, for the ticks
\* 0 .. floor(now) - 1, so an event stamped at floor(now) or later (one recorded
\* at the current instant included) is not reflected in it.
C6_LengthFloorNow ==
    \A n \in Names :
      LET log == res[n].queue_size
          series == queue_size_over_time(log, now)
      IN /\ Len(series) * Scale <= now
         /\ now < (Len(series) + 1) * Scale
         /\ series = queue_size_over_time(
                       SelectSeq(log, LAMBDA ev : ev[1] < Len(series) * Scale), now)

\* now is an integer tick > 0, an event recorded at this very instant observed
\* a non-empty queue, and the series (one value per earlier tick) is all zero.
C6_Witness ==
    \E n \in Names :
      LET log == res[n].queue_size
          series == queue_size_over_time(log, now)
      IN /\ now % Scale = 0
         /\ Len(series) >= 2
         /\ \A i \in 1 .. Len(series) : series[i] = 0
         /\ \E k \in 1 .. Len(log) : log[k][1] = now /\ log[k][2] > 0

\* The term the record of `name` adds to a sum of per-record terms, 0 without one.
TermOf(e, name, terms) ==
    IF \E k \in 1 .. Len(e.resources_requested) : e.resources_requested[k].key = name
    THEN terms[CHOOSE k \in 1 .. Len(e.resources_requested) :
                 e.resources_requested[k].key = name]
    ELSE 0

\* What a request_resource(n) call at time `now` makes of entity e into e1: the
\* record of n holds the new arrival time and zeros, every other record is
\* untouched, and a disposed entity's totals are those of the other records
\* plus the new record's terms 0 - now and 0 - 0.
RequestOverwrites(e, e1, n) ==
    /\ \E k \in 1 .. Len(e1.resources_requested) :
         /\ e1.resources_requested[k].key = n
         /\ e1.resources_requested[k].value
              = [arrival_time |-> now, start_service_time |-> 0,
                 finish_service_time |-> 0]
    /\ Len(e1.resources_requested)
         = Len(e.resources_requested)
           + (IF \E k \in 1 .. Len(e.resources_requested) :
                   e.resources_requested[k].key = n THEN 0 ELSE 1)
    /\ \A k \in 1 .. Len(e.resources_requested) :
         e.resources_requested[k].key # n =>
           e1.resources_requested[k] = e.resources_requested[k]
    /\ e1.disposal_time # None =>
         /\ get_total_waiting_time(e1).val
              = SeqSum(WaitingTerms(e)) - TermOf(e, n, WaitingTerms(e)) + (0 - now)
         /\ get_total_processing_time(e1).val
              = SeqSum(ProcessingTerms(e)) - TermOf(e, n, ProcessingTerms(e))

\* C7: resources_requested holds at most one record per resource name, and a
\* request_resource on a name resets that name's record to zeros and re-stamps
\* its arrival, so that the totals of a disposed entity hold the stamps of the
\* most recent visit to that resource and nothing of an earlier one.
C7_RevisitOverwrites ==
    /\ [](\A i \in 1 .. Len(entities) :
            \A k1, k2 \in 1 .. Len(entities[i].resources_requested) :
              entities[i].resources_requested[k1].key
                = entities[i].resources_requested[k2].key => k1 = k2)
    /\ [][\A i \in 1 .. Len(entities), n \in Names :
            RequestResource(i, n) => RequestOverwrites(entities[i], entities'[i], n)]_vars

\* The entity requested A, started service later, requested A again at time 2
\* and was disposed; its only record holds the second arrival and zeros, and
\* get_total_waiting_time() has just returned 0 - 2.
C7_Witness ==
    /\ ret.op = "get_total_waiting_time"
    /\ ~ret.raised
    /\ ret.val = 0 - 2
    /\ Len(res["A"].queue_size) = 3
    /\ res["A"].queue_size[1][3] = "request"
    /\ res["A"].queue_size[2][3] = "start"
    /\ res["A"].queue_size[3][3] = "request"
    /\ res["A"].queue_size[2][1] > res["A"].queue_size[1][1]
    /\ res["A"].queue_size[3][1] = 2
    /\ entities[ret.ent].disposal_time # None
    /\ entities[ret.ent].resources_requested
         = << [key |-> "A",
               value |-> [arrival_time |-> 2, start_service_time |-> 0,
                          finish_service_time |-> 0]] >>

\* The entities of Source.entities with disposal_time set.
DisposedSet == {i \in 1 .. Len(entities) : entities[i].disposal_time # None}

\* The position of disposed entity i among the disposed ones, in append order.
Rank(i) == Cardinality({j \in DisposedSet : j <= i})

\* `list` holds one value per disposed entity, in append order: stat[i] for i.
IsAggregate(list, stat) ==
    /\ Len(list) = Cardinality(DisposedSet)
    /\ \A i \in DisposedSet : list[Rank(i)] = stat[i]

TotalOf == [i \in DisposedSet |-> entities[i].disposal_time[1] - entities[i].creation_time]

WaitingOf == [i \in DisposedSet |-> SeqSum(WaitingTerms(entities[i]))]

ProcessingOf == [i \in DisposedSet |-> SeqSum(ProcessingTerms(entities[i]))]

\* C8: in every state of a Source, with any mix of disposed and in-progress
\* entities, get_total_times(), get_waiting_times() and get_processing_times()
\* return without error one value per entity with disposal_time set, the k-th
\* value being the statistic of the k-th disposed entity in append order, and
\* nothing for an entity not yet disposed.
C8_Aggregation ==
    /\ ~get_total_times(entities).raised
    /\ ~get_waiting_times(entities).raised
    /\ ~get_processing_times(entities).raised
    /\ IsAggregate(get_total_times(entities).val, TotalOf)
    /\ IsAggregate(get_waiting_times(entities).val, WaitingOf)
    /\ IsAggregate(get_processing_times(entities).val, ProcessingOf)
    /\ ret.op = "get_total_times" => ~ret.raised /\ IsAggregate(ret.val, TotalOf)
    /\ ret.op = "get_waiting_times" => ~ret.raised /\ IsAggregate(ret.val, WaitingOf)
    /\ ret.op = "get_processing_times" =>
         ~ret.raised /\ IsAggregate(ret.val, ProcessingOf)

\* The first entity is still in progress (it has requested the resource), the
\* second is disposed, and get_total_times() has just returned the one total
\* time of the second.
C8_Witness ==
    /\ ret.op = "get_total_times"
    /\ ~ret.raised
    /\ Len(entities) = 2
    /\ entities[1].disposal_time = None
    /\ entities[1].resources_requested # << >>
    /\ entities[2].disposal_time # None
    /\ ret.val = << entities[2].disposal_time[1] - entities[2].creation_time >>
    /\ ret.val[1] > 0

\* C9 as claimed: once disposal_time is set, no later operation on the entity,
\* a further dispose() at a later time included, changes its value.
C9_DisposalSetOnce ==
    [][\A i \in 1 .. Len(entities) :
         entities[i].disposal_time # None =>
           entities'[i].disposal_time = entities[i].disposal_time]_vars

\* C9 as amended: disposal_time is written by dispose() only, and every call
\* of dispose(), the first or a later one, stamps it with the current time and
\* returns that time (the last call wins); no other operation changes it.
C9_DisposeStampsNow ==
    [][\A i \in 1 .. Len(entities) :
         IF ret'.op = "dispose" /\ ret'.ent = i
         THEN /\ entities'[i].disposal_time = << now >>
              /\ ret'.val = now
         ELSE entities'[i].disposal_time = entities[i].disposal_time]_vars

\* dispose() has just returned on an entity whose statistics had been read
\* after an earlier disposal: the stored total_time is that of the earlier
\* disposal_time, which the call has replaced by a later one.
C9_Witness ==
    /\ ret.op = "dispose"
    /\ entities[ret.ent].total_time # None
    /\ entities[ret.ent].disposal_time = << now >>
    /\ entities[ret.ent].total_time[1] + entities[ret.ent].creation_time < now

Recomputed(e) ==
    [e EXCEPT !.total_time = << e.disposal_time[1] - e.creation_time >>,
              !.waiting_time = << SeqSum(WaitingTerms(e)) >>,
              !.processing_time = << SeqSum(ProcessingTerms(e)) >>]

C11_DurationsNonNegative ==
    \A i \in 1 .. Len(entities) :
        LET e == entities[i]
        IN /\ \A name \in Names :
                HasKey(e.resources_requested, name) =>
                    /\ get_waiting_time_for_resource(e, name).val >= 0
                    /\ get_processing_time_for_resource(e, name).val >= 0
           /\ is_disposed(e) =>
                /\ get_total_waiting_time(e).val >= 0
                /\ get_total_processing_time(e).val >= 0

\* The record of `name` in the entity's resources_requested.
RecordOf(e, name) == Lookup(e.resources_requested, name)

\* C12: get_waiting_time_for_resource(r) and get_processing_time_for_resource(r)
\* fail with an error when the entity has no record for r.name, and the failed
\* call leaves resources_requested (and the entity) as it was; when the record
\* exists they return start_service_time - arrival_time and
\* finish_service_time - start_service_time of that record.
C12_PerResourceGetters ==
    [][\A i \in 1 .. Len(entities), n \in Names :
          LET e == entities[i]
              known == HasKey(e.resources_requested, n)
          IN /\ GetWaitingTimeForResource(i, n) =>
                  /\ entities' = entities
                  /\ ret'.op = "get_waiting_time_for_resource"
                  /\ ret'.raised = ~known
                  /\ known => ret'.val = RecordOf(e, n).start_service_time
                                         - RecordOf(e, n).arrival_time
             /\ GetProcessingTimeForResource(i, n) =>
                  /\ entities' = entities
                  /\ ret'.op = "get_processing_time_for_resource"
                  /\ ret'.raised = ~known
                  /\ known => ret'.val = RecordOf(e, n).finish_service_time
                                         - RecordOf(e, n).start_service_time]_vars

\* A getter has just failed for an entity that holds a stamped record of the
\* other resource only.
C12_Witness ==
    /\ ret.op = "get_waiting_time_for_resource"
    /\ ret.raised
    /\ Len(entities[ret.ent].resources_requested) = 1
    /\ entities[ret.ent].resources_requested[1].value.start_service_time > 0

\* C13: Source.count is incremented exactly once per produced entity: whenever
\* next_entity is suspended at a yield or has finished (after the maximum
\* number was reached included) count equals len(entities); the k-th entity is
\* named "<ClassName> k" and its creation_time is the clock value at production
\* plus its delay.
C13_CountIsLen ==
    /\ [](/\ count = Len(entities)
          /\ \A k \in 1 .. Len(entities) : entities[k].name = k)
    /\ [][\A time \in Delays :
            (NextEntity(time, NumberS) /\ Len(entities') > Len(entities)) =>
                entities'[Len(entities')].creation_time = now + time]_vars

\* C14: for a Source built with the finite number NumberS, len(entities) never
\* exceeds NumberS, entities is only ever appended to (the entities already in
\* the list keep their place), and once len(entities) = NumberS the next advance
\* of next_entity ends the sequence and leaves entities as it is.
C14_BoundedAppendOnly ==
    /\ [](/\ Len(entities) <= NumberS
          /\ srcPc = "done" => Len(entities) = NumberS)
    /\ [][/\ Len(entities') \in {Len(entities), Len(entities) + 1}
          /\ \A k \in 1 .. Len(entities) :
                /\ entities'[k].name = entities[k].name
                /\ entities'[k].creation_time = entities[k].creation_time
          /\ \A time \in Delays :
                (NextEntity(time, NumberS) /\ Len(entities) = NumberS) =>
                    /\ entities' = entities
                    /\ srcPc' = "done"
          /\ srcPc = "done" => Len(entities') = Len(entities)]_vars

\* The sequence has ended at the maximum and an entity of the full list has
\* been disposed afterwards.
C14_Witness ==
    /\ srcPc = "done"
    /\ Len(entities) = NumberS
    /\ \E k \in 1 .. Len(entities) : is_disposed(entities[k])

\* The elements of a sequence.
Range(s) == { s[k] : k \in 1 .. Len(s) }

\* The request of entity i has been granted by resource n and none of its
\* requests is waiting there.
Granted(i, n) == i \in Range(res[n].users) /\ i \notin Range(res[n].queue)

C16_LogAppendOnly ==
    [][\A n \in Names :
          LET log == res[n].queue_size
              log1 == res'[n].queue_size
          IN /\ Len(log1) \in {Len(log), Len(log) + 1}
             /\ SubSeq(log1, 1, Len(log)) = log
             /\ Request(n) =>
                  log1 = Append(log, << now, Len(res'[n].queue), "request" >>)
             /\ AddQueueCheck(n) =>
                  /\ log1 = Append(log, << now, Len(res[n].queue), "start" >>)
                  /\ res'[n].queue = res[n].queue
             /\ (Release(n) \/ TriggerPut(n) \/ now' # now) => log1 = log
             /\ (\A m \in Names : ~Request(m) /\ ~AddQueueCheck(m)) => log1 = log]_vars

\* Both kinds of event have been logged at different times and a release is
\* being processed.
C16_Witness ==
    \E n \in Names :
        LET log == res[n].queue_size
        IN /\ \E j, k \in 1 .. Len(log) :
                /\ j < k
                /\ log[j][3] = "request" /\ log[k][3] = "start"
                /\ log[j][1] < log[k][1]
           /\ res[n].pending > 0

Ordered(rec) ==
    /\ rec.arrival_time <= rec.start_service_time
    /\ rec.start_service_time <= rec.finish_service_time

\* C17: a visit made in protocol order under a non-decreasing clock ends with
\* arrival_time <= start_service_time <= finish_service_time, and the record
\* stays so from the release onward. Step by step: no stamp is later than the
\* clock; a start puts start_service_time at or after the arrival of the
\* request it follows; a release of a visit started after its request (which is
\* what arrival <= start says, request_resource having reset the start to 0)
\* yields an ordered record; and an ordered record stays ordered until the
\* entity requests or starts that resource again.
C17_ProtocolOrder ==
    /\ [](\A i \in 1 .. Len(entities), n \in Names :
             HasKey(entities[i].resources_requested, n) =>
                 LET rec == RecordOf(entities[i], n)
                 IN /\ rec.arrival_time <= now
                    /\ rec.start_service_time <= now
                    /\ rec.finish_service_time <= now)
    /\ [][\A i \in 1 .. Len(entities), n \in Names :
             HasKey(entities[i].resources_requested, n) =>
                 LET rec == RecordOf(entities[i], n)
                     rec1 == RecordOf(entities'[i], n)
                 IN /\ StartService(i, n) =>
                         /\ rec1.arrival_time = rec.arrival_time
                         /\ rec1.arrival_time <= rec1.start_service_time
                    /\ ((\E q \in 1 .. Len(entities) : ReleaseResource(i, n, q))
                        /\ rec.arrival_time <= rec.start_service_time) =>
                         /\ rec1.finish_service_time = now
                         /\ Ordered(rec1)
                    /\ (Ordered(rec) /\ ~RequestResource(i, n) /\ ~StartService(i, n)) =>
                         Ordered(rec1)]_vars

\* A visit requested at 0, started half a tick later and released at 1, as the
\* resource's log confirms, read after the release.
C17_Witness ==
    \E i \in 1 .. Len(entities), n \in Names :
        /\ HasKey(entities[i].resources_requested, n)
        /\ RecordOf(entities[i], n).arrival_time < RecordOf(entities[i], n).start_service_time
        /\ RecordOf(entities[i], n).start_service_time < RecordOf(entities[i], n).finish_service_time
        /\ Len(res[n].queue_size) = 2
        /\ res[n].queue_size[1][3] = "request"
        /\ res[n].queue_size[2][3] = "start"
        /\ res[n].users = << >>
        /\ ret.op = "get_processing_time_for_resource" /\ ~ret.raised /\ ret.val > 0

\* C18: a visit record is created by request_resource only.
\* start_service_at_resource(r) and release_resource(r, req) for a name the
\* entity has no record of fail with an error and change nothing: no record is
\* added, no 'start' event is logged, req is not released. No step deletes a
\* record.
C18_RecordsOnlyByRequest ==
    [][\A i \in 1 .. Len(entities), n \in Names :
          LET known == HasKey(entities[i].resources_requested, n)
              known1 == HasKey(entities'[i].resources_requested, n)
          IN /\ (~known /\ StartService(i, n)) =>
                  /\ ret' = Raised("start_service_at_resource", i)
                  /\ entities' = entities
                  /\ res' = res
             /\ \A q \in 1 .. Len(entities) :
                  (~known /\ ReleaseResource(i, n, q)) =>
                      /\ ret' = Raised("release_resource", i)
                      /\ entities' = entities
                      /\ res' = res
             /\ known => known1
             /\ (~known /\ known1) => RequestResource(i, n)]_vars

\* release_resource has just failed for the resource the entity never
\* requested, while its granted request of the other resource is still held.
C18_Witness ==
    /\ ret = Raised("release_resource", 1)
    /\ Len(entities[1].resources_requested) = 1
    /\ \E n \in Names :
          /\ HasKey(entities[1].resources_requested, n)
          /\ res[n].users = << 1 >>
          /\ \A m \in Names \ {n} : res[m].queue_size = << >>

IsPrefix(s, t) == Len(s) <= Len(t) /\ SubSeq(t, 1, Len(s)) = s

\* C19: the series is prefix-stable: what queue_size_over_time() returns before
\* a request, add_queue_check, release or clock advance is a prefix of what it
\* returns after it, hence of what it returns after any number of them; an
\* event recorded later never rewrites a tick already reported. (Two calls with
\* no step in between read the same log and clock and return the same series.)
C19_PrefixStable ==
    [][\A n \in Names :
          IsPrefix(queue_size_over_time(res[n].queue_size, now),
                   queue_size_over_time(res'[n].queue_size, now'))]_vars

\* Ticks have been reported and an event with another size than the last
\* reported one has been recorded since, at a time not yet reported.
C19_Witness ==
    \E n \in Names :
        LET S == queue_size_over_time(res[n].queue_size, now)
        IN /\ Len(S) >= 2
           /\ \E k \in 1 .. Len(res[n].queue_size) :
                 /\ res[n].queue_size[k][1] >= IntNow(now) * Scale
                 /\ res[n].queue_size[k][2] # S[Len(S)]
           /\ \E k \in 1 .. Len(S) : S[k] > 0

\* C20: disposal is absorbing: an entity that is disposed stays disposed under
\* every step (nothing resets disposal_time to None), so an entity included in
\* the aggregation of Source.get_total_times() is included ever after and the
\* length of that list never decreases.
C20_DisposalAbsorbing ==
    [][/\ \A k \in 1 .. Len(entities) :
             is_disposed(entities[k]) => is_disposed(entities'[k])
       /\ Range(_get_disposed_entities(entities))
             \subseteq Range(_get_disposed_entities(entities'))
       /\ ~get_total_times(entities).raised
       /\ ~get_total_times(entities').raised
       /\ Len(get_total_times(entities).val) <= Len(get_total_times(entities').val)]_vars

\* Both entities are in the aggregation just returned, the first one disposed
\* before the clock moved on and the second one after it.
C20_Witness ==
    /\ ret.op = "get_total_times"
    /\ ~ret.raised
    /\ Len(ret.val) = 2
    /\ Len(entities) = 2
    /\ Val(entities[1].disposal_time) < Val(entities[2].disposal_time)
    /\ \E k \in 1 .. 2 : entities[k].resources_requested # << >>

====
